---------------------------- MODULE Spec2Model ----------------------------
(***************************************************************************)
(* A model of the s3-transfer-manager crate: the S3 Uri parser (uri.rs),   *)
(* the progress-observing byte stream (stream.rs) and the transfer manager *)
(* (manager.rs).                                                           *)
(*                                                                         *)
(* Strings are sequences of one-character strings, byte buffers are        *)
(* sequences of integers.  Three specifications share the variables:       *)
(*   SpecParse   S3Uri::parse applied to one input string                  *)
(*   SpecStream  a ByteStreamProgress polled by an arbitrary consumer      *)
(*   Spec        one download / download_file call on a manager            *)
(*   SpecPolicy  S3TransferConfig::get_download_chunk_size on one input    *)
(***************************************************************************)
EXTENDS Integers, Sequences, FiniteSets, TLC

VARIABLES
    calls,      \* the calls (tasks) that exist in this behaviour
    kind,       \* kind[c]: "download" | "download_file" | "consumer" | "parse"
    s3uri,      \* s3uri[c]: the address string the call was given
    uri,        \* uri[c]: the result of S3Uri::parse, NoUri before the parse
    pc,         \* pc[c]: where the call is
    result,     \* result[c]: what the call returned (or that it panicked)
    hasSink,    \* the manager's three callbacks are Some (with_update_progress)
    sinkLog,    \* every callback invocation so far, in order
    inner,      \* inner[c]: what the inner ByteStream will yield from now on
    emitted,    \* emitted[c]: what the inner ByteStream has yielded so far
    lastPoll,   \* lastPoll[c]: the last poll of ByteStreamProgress, got/returned
    terminated, \* terminated[c]: the stream has returned None or Some(Err)
    chunk,      \* chunk[c]: StreamReader's current chunk (unread bytes of it)
    buf,        \* buf[c]: the Vec<u8> passed to download
    buf0,       \* buf0[c]: that Vec<u8> as it was when the call was made
    file,       \* file[c]: the file at the destination path
    wbuf,       \* wbuf[c]: the bytes held in the BufWriter
    gets,       \* gets[c]: the get_object requests the call has sent
    resp,       \* resp[c]: what the backend answered the request with
    config,     \* the manager's Option<S3TransferConfig>
    file0,      \* file0[c]: the destination path as it was when the call was made
    objsz,      \* the object size a chunk plan is asked for
    plan        \* what get_download_chunk_size returned, NoPlan before

vars == <<calls, kind, s3uri, uri, pc, result, hasSink, sinkLog, inner,
          emitted, lastPoll, terminated, chunk, buf, buf0, file, wbuf, gets,
          resp, config, file0, objsz, plan>>

\* The task identifiers.
AllCalls == {"A", "B"}

---------------------------------------------------------------------------
(* Bounds of the model.                                                    *)

\* Longest text that follows the scheme prefix in a parsed string.
MaxRest == 4
\* Most items (chunks and errors) a body stream yields before it ends.
MaxItems == 3
\* Longest chunk a body stream yields.
MaxChunkLen == 2
\* The largest usize, scaled down: sizes and thresholds are 0..MaxSize.
MaxSize == 7
\* The largest max_concurrency of a config.
MaxConcurrency == 4

---------------------------------------------------------------------------
(* uri.rs                                                                  *)

\* The characters the input strings are built from.
Chars == {"a", "b", "/"}

RECURSIVE StringsUpTo(_)
StringsUpTo(n) ==
    IF n = 0 THEN {<< >>}
    ELSE LET shorter == StringsUpTo(n - 1)
         IN  shorter \cup {Append(s, ch) : s \in shorter, ch \in Chars}

\* What the input strings start with: the two accepted prefixes and
\* strings that are near them.
Prefixes ==
    { <<"s", "3", ":", "/", "/">>, <<"S", "3", ":", "/", "/">>,
      <<"s", "1", ":", "/", "/">>, <<"s", "3", ":", "/">>,
      <<"S", "3", "/", "/">>, <<"/", "s", "3", ":", "/", "/">>,
      <<"s", "3">>, << >> }

ParseInputs == {p \o r : p \in Prefixes, r \in StringsUpTo(MaxRest)}

\* str::starts_with
starts_with(s, p) == Len(s) >= Len(p) /\ SubSeq(s, 1, Len(p)) = p

\* The position of the first d in s at or after i, 0 when there is none.
RECURSIVE find(_, _, _)
find(s, d, i) ==
    IF i > Len(s) THEN 0
    ELSE IF s[i] = d THEN i
    ELSE find(s, d, i + 1)

\* str::split_once: None, or the text before and after the first d.
split_once(s, d) ==
    LET i == find(s, d, 1)
    IN  IF i = 0 THEN [some |-> FALSE, left |-> << >>, right |-> << >>]
        ELSE [some |-> TRUE, left |-> SubSeq(s, 1, i - 1),
              right |-> SubSeq(s, i + 1, Len(s))]

\* InvalidS3Uri::from_static
InvalidS3Uri(message) ==
    [ok |-> FALSE, bucket |-> << >>, key |-> << >>, message |-> message]

\* The value of uri[c] before the parse.
NoUri == [ok |-> FALSE, bucket |-> << >>, key |-> << >>, message |-> "unparsed"]

\* A parse that splits at the last '/' (str::rsplit_once).
RECURSIVE rfind(_, _, _)
rfind(s, d, i) ==
    IF i = 0 THEN 0
    ELSE IF s[i] = d THEN i
    ELSE rfind(s, d, i - 1)

parse_rsplit(u) ==
    IF ~starts_with(u, <<"s", "3", ":", "/", "/">>)
       /\ ~starts_with(u, <<"S", "3", ":", "/", "/">>)
    THEN InvalidS3Uri("S3 Uri must start with s3:// or S3://")
    ELSE LET rest == SubSeq(u, 6, Len(u))
             i == rfind(rest, "/", Len(rest))
         IN  IF i = 0 THEN InvalidS3Uri("Incomplete S3 Uri")
             ELSE IF SubSeq(rest, i + 1, Len(rest)) = << >>
                  THEN InvalidS3Uri("Missing key from S3 Uri")
                  ELSE [ok |-> TRUE, bucket |-> SubSeq(rest, 1, i - 1),
                        key |-> SubSeq(rest, i + 1, Len(rest)), message |-> ""]

\* S3Uri::parse
parse(u) ==
    IF ~starts_with(u, <<"s", "3", ":", "/", "/">>)
       /\ ~starts_with(u, <<"S", "3", ":", "/", "/">>)
    THEN InvalidS3Uri("S3 Uri must start with s3:// or S3://")
    ELSE LET sp == split_once(SubSeq(u, 6, Len(u)), "/")
         IN  IF sp.some
             THEN IF sp.right = << >>
                  THEN InvalidS3Uri("Missing key from S3 Uri")
                  ELSE [ok |-> TRUE, bucket |-> sp.left, key |-> sp.right,
                        message |-> ""]
             ELSE InvalidS3Uri("Incomplete S3 Uri")

---------------------------------------------------------------------------
(* stream.rs                                                               *)

\* The items of a stream: Some(Ok(bytes)), Some(Err(e)), None, and
\* Poll::Pending.  An error is told from the others by its code.
Chunk(bytes) == [t |-> "chunk", data |-> bytes]
ErrItem(code) == [t |-> "err", data |-> <<code>>]
EndItem == [t |-> "end", data |-> << >>]
PendingItem == [t |-> "pending", data |-> << >>]
NoItem == [t |-> "none", data |-> << >>]

\* The value of lastPoll[c] before the first poll.
NoPoll == [got |-> NoItem, ret |-> NoItem]

\* The i-th item of a body whose shape is sh: sh[i] >= 0 is a chunk of
\* that many bytes, -1 an error, -2 an end of stream that is followed by
\* more.  The bytes of a chunk tell its place and theirs.
ItemOf(sh, i) ==
    IF sh[i] >= 0 THEN Chunk([j \in 1..sh[i] |-> 10 * i + j])
    ELSE IF sh[i] = -1 THEN ErrItem(100 + i)
    ELSE EndItem

BodyOf(sh) == [i \in 1..Len(sh) |-> ItemOf(sh, i)]

RECURSIVE ShapesUpTo(_, _)
ShapesUpTo(codes, n) ==
    IF n = 0 THEN {<< >>}
    ELSE LET shorter == ShapesUpTo(codes, n - 1)
         IN  shorter \cup {Append(s, x) : s \in shorter, x \in codes}

\* Every stream an inner ByteStream may be: chunks, errors and ends of
\* stream in any order.  After the last item it yields None for ever.
AnyBodies == {BodyOf(sh) : sh \in ShapesUpTo((-2)..MaxChunkLen, MaxItems)}

\* The bodies of a get_object response: chunks, then the end or an error.
ChunkBodies == {BodyOf(sh) : sh \in ShapesUpTo(0..MaxChunkLen, MaxItems)}
FailingBodies ==
    {BodyOf(Append(sh, -1)) : sh \in ShapesUpTo(0..MaxChunkLen, MaxItems - 1)}
ResponseBodies == ChunkBodies \cup FailingBodies

\* What one poll of the inner stream of c may return.
InnerPolls(c) ==
    {PendingItem, IF inner[c] = << >> THEN EndItem ELSE Head(inner[c])}

\* The invocations of the callbacks.  dest is the destination of the call
\* as it is when the callback runs.
DestOf(c) == IF kind[c] = "download_file" THEN file[c].data ELSE buf[c]
SetTotal(c, n) == [cb |-> "set_total", call |-> c, arg |-> n, dest |-> DestOf(c)]
Progress(c, n) == [cb |-> "on_progress", call |-> c, arg |-> n, dest |-> DestOf(c)]
Finished(c, d) == [cb |-> "on_finished", call |-> c, arg |-> 0, dest |-> d]

\* A poll_next that does not report an empty chunk.
poll_next_skips_empty(got) ==
    CASE got.t = "chunk" ->
            [ret |-> Chunk(got.data),
             cb |-> IF got.data = << >> THEN << >> ELSE <<Len(got.data)>>]
      [] got.t = "err" -> [ret |-> ErrItem(got.data[1]), cb |-> << >>]
      [] got.t = "end" -> [ret |-> EndItem, cb |-> << >>]
      [] OTHER -> [ret |-> PendingItem, cb |-> << >>]

\* A poll_next that reports the end of the stream and an error to the
\* callback as a chunk of no bytes.
poll_next_reports_end(got) ==
    CASE got.t = "chunk" ->
            [ret |-> Chunk(got.data), cb |-> <<Len(got.data)>>]
      [] got.t = "err" -> [ret |-> ErrItem(got.data[1]), cb |-> <<0>>]
      [] got.t = "end" -> [ret |-> EndItem, cb |-> <<0>>]
      [] OTHER -> [ret |-> PendingItem, cb |-> << >>]

\* Stream::poll_next of ByteStreamProgress on what the inner poll_next
\* returned: what it returns, and the arguments it calls the callback
\* with when there is one.
poll_next(got) ==
    CASE got.t = "chunk" ->
            [ret |-> Chunk(got.data), cb |-> <<Len(got.data)>>]
      [] got.t = "err" -> [ret |-> ErrItem(got.data[1]), cb |-> << >>]
      [] got.t = "end" -> [ret |-> EndItem, cb |-> << >>]
      [] OTHER -> [ret |-> PendingItem, cb |-> << >>]

\* ByteStreamProgress::next on what inner.next().await returned.
next(res) ==
    IF res.t = "chunk"
    THEN [ret |-> res, cb |-> <<Len(res.data)>>]
    ELSE [ret |-> res, cb |-> << >>]

\* `if let Some(cb) = &self.progress_callback { (cb)(bytes.len()) }`
Observe(c, log, args) ==
    IF hasSink /\ args # << >> THEN Append(log, Progress(c, args[1])) ELSE log

\* The stream of c after a poll of it found got in the inner stream and
\* returned ret.
StreamAdvance(c, got, ret) ==
    /\ inner' = [inner EXCEPT ![c] =
                    IF got.t = "pending" \/ @ = << >> THEN @ ELSE Tail(@)]
    /\ emitted' = [emitted EXCEPT ![c] =
                    IF got.t = "pending" \/ inner[c] = << >> THEN @
                    ELSE Append(@, got)]
    /\ lastPoll' = [lastPoll EXCEPT ![c] = [got |-> got, ret |-> ret]]
    /\ terminated' = [terminated EXCEPT ![c] = @ \/ ret.t \in {"err", "end"}]

\* A consumer polls the stream once through Stream::poll_next.
ConsumerPollNext(c) ==
    /\ kind[c] = "consumer"
    /\ \E got \in InnerPolls(c) :
          LET r == poll_next(got)
          IN  /\ StreamAdvance(c, got, r.ret)
              /\ sinkLog' = Observe(c, sinkLog, r.cb)
    /\ UNCHANGED <<calls, kind, s3uri, uri, pc, result, hasSink, chunk, buf,
                   buf0, file, wbuf, gets, resp,
                   config, file0, objsz, plan>>

\* A consumer awaits ByteStreamProgress::next once.
ConsumerNext(c) ==
    /\ kind[c] = "consumer"
    /\ \E got \in InnerPolls(c) \ {PendingItem} :
          LET r == next(got)
          IN  /\ StreamAdvance(c, got, r.ret)
              /\ sinkLog' = Observe(c, sinkLog, r.cb)
    /\ UNCHANGED <<calls, kind, s3uri, uri, pc, result, hasSink, chunk, buf,
                   buf0, file, wbuf, gets, resp,
                   config, file0, objsz, plan>>

---------------------------------------------------------------------------
(* manager.rs                                                              *)

\* Capacity of the BufWriter, scaled down.
WriterCap == 2

\* The addresses the calls are made with: two that parse, one of them
\* with an empty bucket, and one for each way the parse fails.
CallUris ==
    { <<"s", "3", ":", "/", "/", "a", "/", "b">>,
      <<"S", "3", ":", "/", "/", "/", "b">>,
      <<"s", "3", ":", "/", "/", "a", "/">>,
      <<"s", "3", ":", "/", "/", "a">>,
      <<"f", "t", "p", ":", "/", "/", "a", "/", "b">> }

\* What a call returned.  NoResult: it has not returned.  Panicked: it
\* unwound instead of returning.
NoPayload == [src |-> "", what |-> "", code |-> 0]
NoResult == [status |-> "none", kind |-> "", payload |-> NoPayload]
OkResult == [status |-> "ok", kind |-> "", payload |-> NoPayload]
Panicked == [status |-> "panic", kind |-> "", payload |-> NoPayload]
\* Err(Error::new(kind, payload))
ErrResult(k, p) == [status |-> "err", kind |-> k, payload |-> p]

\* The SdkError<GetObjectError> values of a failed get_object.
SdkErrors ==
    { [variant |-> "ServiceError", err |-> "NoSuchKey"],
      [variant |-> "ServiceError", err |-> "InvalidObjectState"],
      [variant |-> "ServiceError", err |-> "Unhandled"],
      [variant |-> "TimeoutError", err |-> ""],
      [variant |-> "DispatchFailure", err |-> ""] }

\* The answer of the backend: none yet, Ok(output), or an SdkError.
NoResp == [variant |-> "None", err |-> ""]
OkResp == [variant |-> "Ok", err |-> ""]

\* An error handler that gives InvalidObjectState a kind of its own.
error_handler_own_kind(sdk_err) ==
    IF sdk_err.variant = "ServiceError"
    THEN CASE sdk_err.err = "NoSuchKey" ->
                ErrResult("NotFound",
                    [src |-> "GetObjectError", what |-> sdk_err.err, code |-> 0])
           [] sdk_err.err = "InvalidObjectState" ->
                ErrResult("InvalidData",
                    [src |-> "GetObjectError", what |-> sdk_err.err, code |-> 0])
           [] OTHER ->
                ErrResult("Other",
                    [src |-> "GetObjectError", what |-> sdk_err.err, code |-> 0])
    ELSE ErrResult("Other",
            [src |-> "SdkError", what |-> sdk_err.variant, code |-> 0])

\* S3TransferManager::error_handler_get_object
error_handler_get_object(sdk_err) ==
    IF sdk_err.variant = "ServiceError"
    THEN CASE sdk_err.err = "NoSuchKey" ->
                ErrResult("NotFound",
                    [src |-> "GetObjectError", what |-> sdk_err.err, code |-> 0])
           [] sdk_err.err = "InvalidObjectState" ->
                ErrResult("Other",
                    [src |-> "GetObjectError", what |-> sdk_err.err, code |-> 0])
           [] OTHER ->
                ErrResult("Other",
                    [src |-> "GetObjectError", what |-> sdk_err.err, code |-> 0])
    ELSE ErrResult("Other",
            [src |-> "SdkError", what |-> sdk_err.variant, code |-> 0])

\* `?` on an error of the body stream: StreamReader turns it into an
\* io::Error of kind Other that carries it.
StreamError(e) ==
    ErrResult("Other", [src |-> "ByteStream", what |-> "", code |-> e.data[1]])

\* `?` on an io::Error of the destination file.
FileError(what) ==
    ErrResult("LocalIO", [src |-> "File", what |-> what, code |-> 0])

\* The sum of the chunk lengths of a body.
RECURSIVE TotalLen(_)
TotalLen(body) ==
    IF body = << >> THEN 0
    ELSE (IF Head(body).t = "chunk" THEN Len(Head(body).data) ELSE 0)
         + TotalLen(Tail(body))

\* mp_chunk_size of S3TransferConfig::new(): 1MiB.
MpChunkSize == 1048576

\* Option<S3TransferConfig>: None, or Some of a config.
NoConfig ==
    [some |-> FALSE, max_concurrency |-> 0, br_threshold |-> 0,
     mp_threshold |-> 0, mp_chunk_size |-> 0]
SomeConfig(mc, br, mp, sz) ==
    [some |-> TRUE, max_concurrency |-> mc, br_threshold |-> br,
     mp_threshold |-> mp, mp_chunk_size |-> sz]

\* S3TransferConfig::new
NewConfig == SomeConfig(1, MaxSize, MaxSize, MpChunkSize)

\* Option<usize>: None, or Some(range).
NoneSize == [some |-> FALSE, size |-> 0]
SomeSize(n) == [some |-> TRUE, size |-> n]

\* The value of plan before get_download_chunk_size is called.
NoPlan == [some |-> FALSE, size |-> -1]

\* A get_download_chunk_size that divides the object size.
get_download_chunk_size_of_object(cfg, sz) ==
    IF cfg.max_concurrency > 1 /\ sz > cfg.br_threshold
    THEN SomeSize(sz \div cfg.max_concurrency)
    ELSE NoneSize

\* S3TransferConfig::get_download_chunk_size
get_download_chunk_size(cfg, sz) ==
    IF cfg.max_concurrency > 1 /\ sz > cfg.br_threshold
    THEN LET range == cfg.br_threshold \div cfg.max_concurrency
         IN  SomeSize(range)
    ELSE NoneSize

\* S3TransferConfig::get_upload_chunk_size
get_upload_chunk_size(cfg, sz) ==
    IF cfg.max_concurrency > 1 /\ sz > cfg.mp_threshold
    THEN SomeSize(cfg.mp_chunk_size)
    ELSE NoneSize

\* get_object().bucket(b).key(k): a request for the whole object
\* (range "none") or for a range of its bytes.
GetObject(b, k, r) == [bucket |-> b, key |-> k, range |-> r]

\* A Start that asks for a byte range when the config allows splitting.
StartRanged(c) ==
    /\ pc[c] = "Idle"
    /\ kind[c] \in {"download", "download_file"}
    /\ LET u == parse(s3uri[c])
       IN  /\ uri' = [uri EXCEPT ![c] = u]
           /\ IF u.ok
              THEN /\ pc' = [pc EXCEPT ![c] = "Requested"]
                   /\ gets' = [gets EXCEPT ![c] =
                        Append(@, GetObject(u.bucket, u.key,
                            IF config.max_concurrency > 1 THEN "bytes"
                            ELSE "none"))]
                   /\ UNCHANGED result
              ELSE /\ pc' = [pc EXCEPT ![c] = "Panicked"]
                   /\ result' = [result EXCEPT ![c] = Panicked]
                   /\ UNCHANGED gets
    /\ UNCHANGED <<calls, kind, s3uri, hasSink, sinkLog, inner, emitted,
                   lastPoll, terminated, chunk, buf, buf0, file, wbuf, resp,
                   config, file0, objsz, plan>>

\* A Start that creates the destination file before it sends the request.
StartCreatesFile(c) ==
    /\ pc[c] = "Idle"
    /\ kind[c] \in {"download", "download_file"}
    /\ LET u == parse(s3uri[c])
       IN  /\ uri' = [uri EXCEPT ![c] = u]
           /\ IF u.ok
              THEN /\ pc' = [pc EXCEPT ![c] = "Requested"]
                   /\ gets' = [gets EXCEPT ![c] =
                        Append(@, GetObject(u.bucket, u.key, "none"))]
                   /\ UNCHANGED result
              ELSE /\ pc' = [pc EXCEPT ![c] = "Panicked"]
                   /\ result' = [result EXCEPT ![c] = Panicked]
                   /\ UNCHANGED gets
    /\ file' = [file EXCEPT ![c] =
                    IF kind[c] = "download_file"
                    THEN [exists |-> TRUE, data |-> << >>] ELSE @]
    /\ UNCHANGED <<calls, kind, s3uri, hasSink, sinkLog, inner, emitted,
                   lastPoll, terminated, chunk, buf, buf0, wbuf, resp,
                   config, file0, objsz, plan>>

\* download and download_file up to the first await: the address is
\* parsed, and the request is built and sent.
Start(c) ==
    /\ pc[c] = "Idle"
    /\ kind[c] \in {"download", "download_file"}
    /\ LET u == parse(s3uri[c])
       IN  /\ uri' = [uri EXCEPT ![c] = u]
           /\ IF u.ok
              THEN /\ pc' = [pc EXCEPT ![c] = "Requested"]
                   /\ gets' = [gets EXCEPT ![c] =
                        Append(@, GetObject(u.bucket, u.key, "none"))]
                   /\ UNCHANGED result
              ELSE /\ pc' = [pc EXCEPT ![c] = "Panicked"]
                   /\ result' = [result EXCEPT ![c] = Panicked]
                   /\ UNCHANGED gets
    /\ UNCHANGED <<calls, kind, s3uri, hasSink, sinkLog, inner, emitted,
                   lastPoll, terminated, chunk, buf, buf0, file, wbuf, resp,
                   config, file0, objsz, plan>>

\* The shapes of the bodies of calls that run together.
ConcShapes == {<<1, 2>>, <<2, 2>>, <<1, -1>>}

\* The body of shape sh of an object that call c asks for: when several
\* calls run, the bytes and the error codes of a body also tell the call.
MarkedBody(sh, c) ==
    LET mark == IF c = "A" THEN 0 ELSE 50
    IN  [i \in 1..Len(sh) |->
            LET it == ItemOf(sh, i)
            IN  [it EXCEPT !.data = [j \in 1..Len(@) |-> @[j] + mark]]]

\* The bodies the backend may answer the request of call c with.
BodiesOf(c) ==
    IF calls = {c} THEN ResponseBodies
    ELSE {MarkedBody(sh, c) : sh \in ConcShapes}

\* A GetOk that does not call set_progress_length.
GetOkNoTotal(c) ==
    /\ pc[c] = "Requested"
    /\ \E body \in BodiesOf(c) :
          inner' = [inner EXCEPT ![c] = body]
    /\ resp' = [resp EXCEPT ![c] = OkResp]
    /\ pc' = [pc EXCEPT ![c] = "Receiving"]
    /\ UNCHANGED <<calls, kind, s3uri, uri, result, hasSink, sinkLog, emitted,
                   lastPoll, terminated, chunk, buf, buf0, file, wbuf, gets,
                   config, file0, objsz, plan>>

\* send().await returns Ok(output): set_progress_length is called with
\* the content length (0 when there is none), and the body is wrapped in
\* a ByteStreamProgress and that in a StreamReader.
GetOk(c) ==
    /\ pc[c] = "Requested"
    /\ \E body \in BodiesOf(c) :
       \E content_length \in {-1, TotalLen(body)} :
          /\ inner' = [inner EXCEPT ![c] = body]
          /\ sinkLog' =
                IF hasSink
                THEN Append(sinkLog,
                        SetTotal(c, IF content_length = -1 THEN 0
                                    ELSE content_length))
                ELSE sinkLog
    /\ resp' = [resp EXCEPT ![c] = OkResp]
    /\ pc' = [pc EXCEPT ![c] = "Receiving"]
    /\ UNCHANGED <<calls, kind, s3uri, uri, result, hasSink, emitted,
                   lastPoll, terminated, chunk, buf, buf0, file, wbuf, gets,
                   config, file0, objsz, plan>>

\* send().await returns Err(sdk_err).
GetErr(c) ==
    /\ pc[c] = "Requested"
    /\ \E sdk_err \in SdkErrors :
          /\ result' = [result EXCEPT ![c] = error_handler_get_object(sdk_err)]
          /\ resp' = [resp EXCEPT ![c] = sdk_err]
    /\ pc' = [pc EXCEPT ![c] = "Failed"]
    /\ UNCHANGED <<calls, kind, s3uri, uri, hasSink, sinkLog, inner, emitted,
                   lastPoll, terminated, chunk, buf, buf0, file, wbuf, gets,
                   config, file0, objsz, plan>>

\* download: reader.read_to_end(buf) is first polled.
BeginRead(c) ==
    /\ pc[c] = "Receiving"
    /\ kind[c] = "download"
    /\ pc' = [pc EXCEPT ![c] = "Draining"]
    /\ UNCHANGED <<calls, kind, s3uri, uri, result, hasSink, sinkLog, inner,
                   emitted, lastPoll, terminated, chunk, buf, buf0, file,
                   wbuf, gets, resp,
                   config, file0, objsz, plan>>

\* download_file: File::create(path).await returns the file, created or
\* truncated, and the BufWriter is made.
CreateFile(c) ==
    /\ pc[c] = "Receiving"
    /\ kind[c] = "download_file"
    /\ file' = [file EXCEPT ![c] = [exists |-> TRUE, data |-> << >>]]
    /\ wbuf' = [wbuf EXCEPT ![c] = << >>]
    /\ pc' = [pc EXCEPT ![c] = "Draining"]
    /\ UNCHANGED <<calls, kind, s3uri, uri, result, hasSink, sinkLog, inner,
                   emitted, lastPoll, terminated, chunk, buf, buf0, gets,
                   resp,
                   config, file0, objsz, plan>>

\* download_file: File::create(path).await returns an error.
CreateFileErr(c) ==
    /\ pc[c] = "Receiving"
    /\ kind[c] = "download_file"
    /\ result' = [result EXCEPT ![c] = FileError("create")]
    /\ pc' = [pc EXCEPT ![c] = "Failed"]
    /\ UNCHANGED <<calls, kind, s3uri, uri, hasSink, sinkLog, inner, emitted,
                   lastPoll, terminated, chunk, buf, buf0, file, wbuf, gets,
                   resp,
                   config, file0, objsz, plan>>

\* `if let Some(finish) = &self.progress_finished { (finish)() }`
Finish(c, log, dest) == IF hasSink THEN Append(log, Finished(c, dest)) ELSE log

\* The reader of c is being drained and holds no unread chunk, so that
\* poll_fill_buf polls the stream.
Filling(c) ==
    /\ pc[c] = "Draining"
    /\ kind[c] \in {"download", "download_file"}
    /\ chunk[c] = << >>

\* poll_fill_buf polls the stream, which is pending.
FillPending(c) ==
    /\ Filling(c)
    /\ LET r == poll_next(PendingItem)
       IN  /\ StreamAdvance(c, PendingItem, r.ret)
           /\ sinkLog' = Observe(c, sinkLog, r.cb)
    /\ UNCHANGED <<calls, kind, s3uri, uri, pc, result, hasSink, chunk, buf,
                   buf0, file, wbuf, gets, resp,
                   config, file0, objsz, plan>>

\* A FillChunk that keeps the chunk it pulled in a place that all the
\* calls of the manager read from.
FillChunkShared(c) ==
    /\ Filling(c)
    /\ \E got \in InnerPolls(c) :
          /\ got.t = "chunk"
          /\ LET r == poll_next(got)
             IN  /\ StreamAdvance(c, got, r.ret)
                 /\ sinkLog' = Observe(c, sinkLog, r.cb)
                 /\ chunk' = [d \in AllCalls |->
                                IF d \in calls THEN r.ret.data ELSE chunk[d]]
    /\ UNCHANGED <<calls, kind, s3uri, uri, pc, result, hasSink, buf, buf0,
                   file, wbuf, gets, resp,
                   config, file0, objsz, plan>>

\* A FillChunk that polls the stream while the reader still holds unread
\* bytes, and puts the new chunk behind them.
FillChunkEager(c) ==
    /\ pc[c] = "Draining"
    /\ kind[c] \in {"download", "download_file"}
    /\ \E got \in InnerPolls(c) :
          /\ got.t = "chunk"
          /\ LET r == poll_next(got)
             IN  /\ StreamAdvance(c, got, r.ret)
                 /\ sinkLog' = Observe(c, sinkLog, r.cb)
                 /\ chunk' = [chunk EXCEPT ![c] = @ \o r.ret.data]
    /\ UNCHANGED <<calls, kind, s3uri, uri, pc, result, hasSink, buf, buf0,
                   file, wbuf, gets, resp,
                   config, file0, objsz, plan>>

\* poll_fill_buf polls the stream, which yields a chunk: the chunk
\* becomes the reader's current chunk.
FillChunk(c) ==
    /\ Filling(c)
    /\ \E got \in InnerPolls(c) :
          /\ got.t = "chunk"
          /\ LET r == poll_next(got)
             IN  /\ StreamAdvance(c, got, r.ret)
                 /\ sinkLog' = Observe(c, sinkLog, r.cb)
                 /\ chunk' = [chunk EXCEPT ![c] = r.ret.data]
    /\ UNCHANGED <<calls, kind, s3uri, uri, pc, result, hasSink, buf, buf0,
                   file, wbuf, gets, resp,
                   config, file0, objsz, plan>>

\* A FillErr that calls progress_finished before it returns the error.
FillErrFinishes(c) ==
    /\ Filling(c)
    /\ \E got \in InnerPolls(c) :
          /\ got.t = "err"
          /\ LET r == poll_next(got)
             IN  /\ StreamAdvance(c, got, r.ret)
                 /\ sinkLog' = Finish(c, Observe(c, sinkLog, r.cb), DestOf(c))
                 /\ result' = [result EXCEPT ![c] = StreamError(r.ret)]
    /\ pc' = [pc EXCEPT ![c] = "Failed"]
    /\ UNCHANGED <<calls, kind, s3uri, uri, hasSink, chunk, buf, buf0, file,
                   wbuf, gets, resp,
                   config, file0, objsz, plan>>

\* A FillErr that empties the destination buffer.
FillErrClears(c) ==
    /\ Filling(c)
    /\ \E got \in InnerPolls(c) :
          /\ got.t = "err"
          /\ LET r == poll_next(got)
             IN  /\ StreamAdvance(c, got, r.ret)
                 /\ sinkLog' = Observe(c, sinkLog, r.cb)
                 /\ result' = [result EXCEPT ![c] = StreamError(r.ret)]
    /\ pc' = [pc EXCEPT ![c] = "Failed"]
    /\ buf' = [buf EXCEPT ![c] = << >>]
    /\ UNCHANGED <<calls, kind, s3uri, uri, hasSink, chunk, buf0, file, wbuf,
                   gets, resp,
                   config, file0, objsz, plan>>

\* A FillErr that ends the call as if the body had ended.
FillErrSwallowed(c) ==
    /\ Filling(c)
    /\ \E got \in InnerPolls(c) :
          /\ got.t = "err"
          /\ LET r == poll_next(got)
             IN  /\ StreamAdvance(c, got, r.ret)
                 /\ sinkLog' = Finish(c, Observe(c, sinkLog, r.cb), DestOf(c))
    /\ result' = [result EXCEPT ![c] = OkResult]
    /\ pc' = [pc EXCEPT ![c] = "Completed"]
    /\ UNCHANGED <<calls, kind, s3uri, uri, hasSink, chunk, buf, buf0, file,
                   wbuf, gets, resp,
                   config, file0, objsz, plan>>

\* poll_fill_buf polls the stream, which yields an error: read_to_end
\* and copy_buf return it and `?` returns it from the call.  The
\* BufWriter of download_file is dropped with what it holds.
FillErr(c) ==
    /\ Filling(c)
    /\ \E got \in InnerPolls(c) :
          /\ got.t = "err"
          /\ LET r == poll_next(got)
             IN  /\ StreamAdvance(c, got, r.ret)
                 /\ sinkLog' = Observe(c, sinkLog, r.cb)
                 /\ result' = [result EXCEPT ![c] = StreamError(r.ret)]
    /\ pc' = [pc EXCEPT ![c] = "Failed"]
    /\ UNCHANGED <<calls, kind, s3uri, uri, hasSink, chunk, buf, buf0, file,
                   wbuf, gets, resp,
                   config, file0, objsz, plan>>

\* A ReadCopy that writes the bytes at the start of the buffer.
ReadCopyOverwrites(c) ==
    /\ pc[c] = "Draining"
    /\ kind[c] = "download"
    /\ chunk[c] # << >>
    /\ \E n \in 1..Len(chunk[c]) :
          /\ buf' = [buf EXCEPT ![c] =
                SubSeq(chunk[c], 1, n) \o SubSeq(@, n + 1, Len(@))]
          /\ chunk' = [chunk EXCEPT ![c] = SubSeq(@, n + 1, Len(@))]
    /\ UNCHANGED <<calls, kind, s3uri, uri, pc, result, hasSink, sinkLog,
                   inner, emitted, lastPoll, terminated, buf0, file, wbuf,
                   gets, resp,
                   config, file0, objsz, plan>>

\* download: read_to_end polls the reader, which holds unread bytes of
\* its chunk: as many of them as the Vec has room for are appended to
\* the Vec and consumed.
ReadCopy(c) ==
    /\ pc[c] = "Draining"
    /\ kind[c] = "download"
    /\ chunk[c] # << >>
    /\ \E n \in 1..Len(chunk[c]) :
          /\ buf' = [buf EXCEPT ![c] = @ \o SubSeq(chunk[c], 1, n)]
          /\ chunk' = [chunk EXCEPT ![c] = SubSeq(@, n + 1, Len(@))]
    /\ UNCHANGED <<calls, kind, s3uri, uri, pc, result, hasSink, sinkLog,
                   inner, emitted, lastPoll, terminated, buf0, file, wbuf,
                   gets, resp,
                   config, file0, objsz, plan>>

\* download: the stream yields None, the reader reads 0 bytes and
\* read_to_end returns; progress_finished is called and the call
\* returns Ok.
ReadEof(c) ==
    /\ Filling(c)
    /\ kind[c] = "download"
    /\ \E got \in InnerPolls(c) :
          /\ got.t = "end"
          /\ LET r == poll_next(got)
             IN  /\ StreamAdvance(c, got, r.ret)
                 /\ sinkLog' = Finish(c, Observe(c, sinkLog, r.cb), buf[c])
    /\ result' = [result EXCEPT ![c] = OkResult]
    /\ pc' = [pc EXCEPT ![c] = "Completed"]
    /\ UNCHANGED <<calls, kind, s3uri, uri, hasSink, chunk, buf, buf0, file,
                   wbuf, gets, resp,
                   config, file0, objsz, plan>>

\* BufWriter::poll_write of the bytes b when the file accepts n of the
\* bytes it is handed directly: what is in the file and in the BufWriter
\* afterwards, and how many bytes of b were taken.
BufWrite(f, w, b, n) ==
    LET flushes == Len(w) + Len(b) > WriterCap
        f1 == IF flushes THEN f \o w ELSE f
        w1 == IF flushes THEN << >> ELSE w
    IN  IF Len(b) >= WriterCap
        THEN [file |-> f1 \o SubSeq(b, 1, n), wbuf |-> w1, taken |-> n]
        ELSE [file |-> f1, wbuf |-> w1 \o b, taken |-> Len(b)]

\* download_file: copy_buf hands the reader's unread bytes to the
\* BufWriter and consumes what it took.
CopyWrite(c) ==
    /\ pc[c] = "Draining"
    /\ kind[c] = "download_file"
    /\ chunk[c] # << >>
    /\ \E n \in 1..Len(chunk[c]) :
          LET w == BufWrite(file[c].data, wbuf[c], chunk[c], n)
          IN  /\ file' = [file EXCEPT ![c].data = w.file]
              /\ wbuf' = [wbuf EXCEPT ![c] = w.wbuf]
              /\ chunk' = [chunk EXCEPT ![c] = SubSeq(@, w.taken + 1, Len(@))]
    /\ UNCHANGED <<calls, kind, s3uri, uri, pc, result, hasSink, sinkLog,
                   inner, emitted, lastPoll, terminated, buf, buf0, gets,
                   resp,
                   config, file0, objsz, plan>>

\* download_file: the BufWriter writes to the file (what it holds, or the
\* bytes it is handed) and the write fails after k bytes of what it
\* holds: copy_buf returns the error and `?` returns it from the call.
CopyWriteErr(c) ==
    /\ pc[c] = "Draining"
    /\ kind[c] = "download_file"
    /\ chunk[c] # << >>
    /\ Len(wbuf[c]) + Len(chunk[c]) > WriterCap
    /\ \E k \in 0..Len(wbuf[c]) :
          file' = [file EXCEPT ![c].data = @ \o SubSeq(wbuf[c], 1, k)]
    /\ result' = [result EXCEPT ![c] = FileError("write")]
    /\ pc' = [pc EXCEPT ![c] = "Failed"]
    /\ UNCHANGED <<calls, kind, s3uri, uri, hasSink, sinkLog, inner, emitted,
                   lastPoll, terminated, chunk, buf, buf0, wbuf, gets, resp,
                   config, file0, objsz, plan>>

\* download_file: the stream yields None, copy_buf flushes the BufWriter
\* and the flush is pending: what the BufWriter held is handed to the
\* file, and the next poll of copy_buf polls the stream again.
CopyEofPending(c) ==
    /\ Filling(c)
    /\ kind[c] = "download_file"
    /\ \E got \in InnerPolls(c) :
          /\ got.t = "end"
          /\ LET r == poll_next(got)
             IN  /\ StreamAdvance(c, got, r.ret)
                 /\ sinkLog' = Observe(c, sinkLog, r.cb)
    /\ file' = [file EXCEPT ![c].data = @ \o wbuf[c]]
    /\ wbuf' = [wbuf EXCEPT ![c] = << >>]
    /\ UNCHANGED <<calls, kind, s3uri, uri, pc, result, hasSink, chunk, buf,
                   buf0, gets, resp,
                   config, file0, objsz, plan>>

\* download_file: the stream yields None and the flush fails after k
\* bytes: copy_buf returns the error and `?` returns it from the call.
CopyEofErr(c) ==
    /\ Filling(c)
    /\ kind[c] = "download_file"
    /\ \E got \in InnerPolls(c) :
          /\ got.t = "end"
          /\ LET r == poll_next(got)
             IN  /\ StreamAdvance(c, got, r.ret)
                 /\ sinkLog' = Observe(c, sinkLog, r.cb)
    /\ \E k \in 0..Len(wbuf[c]) :
          file' = [file EXCEPT ![c].data = @ \o SubSeq(wbuf[c], 1, k)]
    /\ result' = [result EXCEPT ![c] = FileError("flush")]
    /\ pc' = [pc EXCEPT ![c] = "Failed"]
    /\ UNCHANGED <<calls, kind, s3uri, uri, hasSink, chunk, buf, buf0, wbuf,
                   gets, resp,
                   config, file0, objsz, plan>>

\* A CopyEof that returns without flushing the BufWriter.
CopyEofNoFlush(c) ==
    /\ Filling(c)
    /\ kind[c] = "download_file"
    /\ \E got \in InnerPolls(c) :
          /\ got.t = "end"
          /\ LET r == poll_next(got)
             IN  /\ StreamAdvance(c, got, r.ret)
                 /\ sinkLog' = Finish(c, Observe(c, sinkLog, r.cb),
                                      file[c].data)
    /\ UNCHANGED <<file, wbuf>>
    /\ result' = [result EXCEPT ![c] = OkResult]
    /\ pc' = [pc EXCEPT ![c] = "Completed"]
    /\ UNCHANGED <<calls, kind, s3uri, uri, hasSink, chunk, buf, buf0, gets, resp,
                   config, file0, objsz, plan>>

\* download_file: the stream yields None and the flush completes:
\* copy_buf returns, progress_finished is called and the call returns Ok.
CopyEof(c) ==
    /\ Filling(c)
    /\ kind[c] = "download_file"
    /\ \E got \in InnerPolls(c) :
          /\ got.t = "end"
          /\ LET r == poll_next(got)
             IN  /\ StreamAdvance(c, got, r.ret)
                 /\ sinkLog' = Finish(c, Observe(c, sinkLog, r.cb),
                                      file[c].data \o wbuf[c])
    /\ file' = [file EXCEPT ![c].data = @ \o wbuf[c]]
    /\ wbuf' = [wbuf EXCEPT ![c] = << >>]
    /\ result' = [result EXCEPT ![c] = OkResult]
    /\ pc' = [pc EXCEPT ![c] = "Completed"]
    /\ UNCHANGED <<calls, kind, s3uri, uri, hasSink, chunk, buf, buf0, gets, resp,
                   config, file0, objsz, plan>>

\* The call has not returned.
Running(c) == pc[c] \in {"Idle", "Requested", "Receiving", "Draining"}

\* A Drop that flushes the BufWriter as it is dropped.
DropFlushes(c) ==
    /\ Running(c)
    /\ kind[c] \in {"download", "download_file"}
    /\ pc' = [pc EXCEPT ![c] = "Dropped"]
    /\ chunk' = [chunk EXCEPT ![c] = << >>]
    /\ file' = [file EXCEPT ![c].data = @ \o wbuf[c]]
    /\ wbuf' = [wbuf EXCEPT ![c] = << >>]
    /\ UNCHANGED <<calls, kind, s3uri, uri, result, hasSink, sinkLog, inner,
                   emitted, lastPoll, terminated, buf, buf0, gets, resp,
                   config, file0, objsz, plan>>

\* The caller drops the future of the call before it has returned: the
\* request or the reader with its stream, and the BufWriter with the
\* bytes it holds and the file, are dropped.  Nothing of the call runs
\* afterwards.
Drop(c) ==
    /\ Running(c)
    /\ kind[c] \in {"download", "download_file"}
    /\ pc' = [pc EXCEPT ![c] = "Dropped"]
    /\ chunk' = [chunk EXCEPT ![c] = << >>]
    /\ wbuf' = [wbuf EXCEPT ![c] = << >>]
    /\ UNCHANGED <<calls, kind, s3uri, uri, result, hasSink, sinkLog, inner,
                   emitted, lastPoll, terminated, buf, buf0, file, gets, resp,
                   config, file0, objsz, plan>>

---------------------------------------------------------------------------
(* The specifications.                                                     *)

\* The state of a call that does not exist, and of every call before its
\* inputs are chosen.
Blank ==
    /\ uri = [c \in AllCalls |-> NoUri]
    /\ result = [c \in AllCalls |-> NoResult]
    /\ sinkLog = << >>
    /\ emitted = [c \in AllCalls |-> << >>]
    /\ lastPoll = [c \in AllCalls |-> NoPoll]
    /\ terminated = [c \in AllCalls |-> FALSE]
    /\ chunk = [c \in AllCalls |-> << >>]
    /\ wbuf = [c \in AllCalls |-> << >>]
    /\ gets = [c \in AllCalls |-> << >>]
    /\ resp = [c \in AllCalls |-> NoResp]

\* The Vec<u8> a download is given: empty, or holding bytes already.
InitBufs == {<< >>, <<7>>}
\* The destination path of a download_file: no file, or a file with bytes.
NoFile == [exists |-> FALSE, data |-> << >>]
InitFiles == {NoFile, [exists |-> TRUE, data |-> <<8, 8, 8>>]}

\* The configs of the managers that are called: none (new), the one of
\* S3TransferConfig::new, and one that splits every object of 2 bytes or
\* more.
ManagerConfigs == {NoConfig, NewConfig, SomeConfig(2, 1, 1, 1)}

\* One call of download or download_file on a manager made by new() (no
\* callbacks) or by with_update_progress (three callbacks), with or
\* without with_config.
Init ==
    /\ Blank
    /\ calls = {"A"}
    /\ hasSink \in BOOLEAN
    /\ \E k \in {"download", "download_file"} :
          /\ kind = [c \in AllCalls |-> IF c = "A" THEN k ELSE "none"]
          /\ \E b \in (IF k = "download" THEN InitBufs ELSE {<< >>}) :
                /\ buf = [c \in AllCalls |-> IF c = "A" THEN b ELSE << >>]
                /\ buf0 = buf
          /\ \E f \in (IF k = "download_file" THEN InitFiles ELSE {NoFile}) :
                file = [c \in AllCalls |-> IF c = "A" THEN f ELSE NoFile]
    /\ \E u \in CallUris :
          s3uri = [c \in AllCalls |-> IF c = "A" THEN u ELSE << >>]
    /\ pc = [c \in AllCalls |-> IF c = "A" THEN "Idle" ELSE "None"]
    /\ inner = [c \in AllCalls |-> << >>]
    /\ config \in ManagerConfigs
    /\ file0 = file
    /\ objsz = 0
    /\ plan = NoPlan

\* The steps of a call that is polled.
Drive ==
    \/ \E c \in calls : Start(c)
    \/ \E c \in calls : GetOk(c)
    \/ \E c \in calls : GetErr(c)
    \/ \E c \in calls : BeginRead(c)
    \/ \E c \in calls : CreateFile(c)
    \/ \E c \in calls : CreateFileErr(c)
    \/ \E c \in calls : FillPending(c)
    \/ \E c \in calls : FillChunk(c)
    \/ \E c \in calls : FillErr(c)
    \/ \E c \in calls : ReadCopy(c)
    \/ \E c \in calls : ReadEof(c)
    \/ \E c \in calls : CopyWrite(c)
    \/ \E c \in calls : CopyWriteErr(c)
    \/ \E c \in calls : CopyEofPending(c)
    \/ \E c \in calls : CopyEofErr(c)
    \/ \E c \in calls : CopyEof(c)

Next ==
    \/ Drive
    \/ \E c \in calls : Drop(c)

Spec == Init /\ [][Next]_vars

\* The steps of a call in which something it awaits is ready: the
\* backend answers, the stream yields an item, the file takes a write or
\* completes a flush.
Advance ==
    \E c \in calls :
        \/ Start(c) \/ GetOk(c) \/ GetErr(c)
        \/ BeginRead(c) \/ CreateFile(c) \/ CreateFileErr(c)
        \/ FillChunk(c) \/ FillErr(c)
        \/ ReadCopy(c) \/ ReadEof(c)
        \/ CopyWrite(c) \/ CopyWriteErr(c)
        \/ CopyEofErr(c) \/ CopyEof(c)

\* A call whose future is polled until it returns, on a backend that
\* answers, a body whose polls do not stay pending for ever and a file
\* whose operations complete.  The call is made on a manager without a
\* config, with an empty buffer or a path where no file is.
InitLive ==
    /\ Init
    /\ config = NoConfig
    /\ \A c \in AllCalls : buf[c] = << >> /\ file[c] = NoFile

SpecLive == InitLive /\ [][Drive]_vars /\ WF_vars(Advance)

\* Two calls on one manager made with_config(S3TransferConfig::new()),
\* both started and polled in any order: a
\* download into a buffer that holds a byte, and a download or a
\* download_file, with an address that parses or one that does not.
InitConc ==
    /\ Blank
    /\ calls = AllCalls
    /\ hasSink \in BOOLEAN
    /\ \E k \in {"download", "download_file"} :
          kind = [c \in AllCalls |-> IF c = "A" THEN "download" ELSE k]
    /\ buf = [c \in AllCalls |-> IF c = "A" THEN <<7>> ELSE << >>]
    /\ buf0 = buf
    /\ file = [c \in AllCalls |-> NoFile]
    /\ \E u \in {<<"s", "3", ":", "/", "/", "a", "/", "b">>,
                 <<"f", "t", "p", ":", "/", "/", "a", "/", "b">>} :
          s3uri = [c \in AllCalls |->
                     IF c = "A" THEN <<"s", "3", ":", "/", "/", "a", "/", "b">>
                     ELSE u]
    /\ pc = [c \in AllCalls |-> "Idle"]
    /\ inner = [c \in AllCalls |-> << >>]
    /\ config = NewConfig
    /\ file0 = file
    /\ objsz = 0
    /\ plan = NoPlan

SpecConc == InitConc /\ [][Next]_vars

\* A ByteStreamProgress over any inner stream, with or without a
\* callback, polled by a consumer that never stops.
InitStream ==
    /\ Blank
    /\ calls = {"A"}
    /\ hasSink \in BOOLEAN
    /\ kind = [c \in AllCalls |-> IF c = "A" THEN "consumer" ELSE "none"]
    /\ s3uri = [c \in AllCalls |-> << >>]
    /\ pc = [c \in AllCalls |-> IF c = "A" THEN "Polling" ELSE "None"]
    /\ \E body \in AnyBodies :
          inner = [c \in AllCalls |-> IF c = "A" THEN body ELSE << >>]
    /\ buf = [c \in AllCalls |-> << >>]
    /\ buf0 = buf
    /\ file = [c \in AllCalls |-> NoFile]
    /\ config = NoConfig
    /\ file0 = file
    /\ objsz = 0
    /\ plan = NoPlan

NextStream ==
    \/ \E c \in calls : ConsumerPollNext(c)
    \/ \E c \in calls : ConsumerNext(c)

SpecStream == InitStream /\ [][NextStream]_vars

\* S3Uri::parse is applied to the input string.
ParseOnly(c) ==
    /\ kind[c] = "parse"
    /\ pc[c] = "Idle"
    /\ uri' = [uri EXCEPT ![c] = parse(s3uri[c])]
    /\ pc' = [pc EXCEPT ![c] = "Parsed"]
    /\ UNCHANGED <<calls, kind, s3uri, result, hasSink, sinkLog, inner,
                   emitted, lastPoll, terminated, chunk, buf, buf0, file,
                   wbuf, gets, resp,
                   config, file0, objsz, plan>>

InitParse ==
    /\ Blank
    /\ calls = {"A"}
    /\ hasSink = FALSE
    /\ kind = [c \in AllCalls |-> IF c = "A" THEN "parse" ELSE "none"]
    /\ \E u \in ParseInputs :
          s3uri = [c \in AllCalls |-> IF c = "A" THEN u ELSE << >>]
    /\ pc = [c \in AllCalls |-> IF c = "A" THEN "Idle" ELSE "None"]
    /\ inner = [c \in AllCalls |-> << >>]
    /\ buf = [c \in AllCalls |-> << >>]
    /\ buf0 = buf
    /\ file = [c \in AllCalls |-> NoFile]
    /\ config = NoConfig
    /\ file0 = file
    /\ objsz = 0
    /\ plan = NoPlan

NextParse == \E c \in calls : ParseOnly(c)

SpecParse == InitParse /\ [][NextParse]_vars

\* get_download_chunk_size is applied to the config and the object size.
PlanDownload ==
    /\ \E c \in calls : kind[c] = "plan" /\ pc[c] = "Idle"
    /\ plan' = get_download_chunk_size(config, objsz)
    /\ pc' = [c \in AllCalls |-> IF c \in calls THEN "Planned" ELSE pc[c]]
    /\ UNCHANGED <<calls, kind, s3uri, uri, result, hasSink, sinkLog, inner,
                   emitted, lastPoll, terminated, chunk, buf, buf0, file,
                   wbuf, gets, resp, config, file0, objsz>>

\* Every config of a max_concurrency up to MaxConcurrency and a
\* br_threshold up to MaxSize, and every object size up to MaxSize.
InitPolicy ==
    /\ Blank
    /\ calls = {"A"}
    /\ hasSink = FALSE
    /\ kind = [c \in AllCalls |-> IF c = "A" THEN "plan" ELSE "none"]
    /\ s3uri = [c \in AllCalls |-> << >>]
    /\ pc = [c \in AllCalls |-> IF c = "A" THEN "Idle" ELSE "None"]
    /\ inner = [c \in AllCalls |-> << >>]
    /\ buf = [c \in AllCalls |-> << >>]
    /\ buf0 = buf
    /\ file = [c \in AllCalls |-> NoFile]
    /\ file0 = file
    /\ \E mc \in 0..MaxConcurrency, br \in 0..MaxSize :
          config = SomeConfig(mc, br, MaxSize, MpChunkSize)
    /\ objsz \in 0..MaxSize
    /\ plan = NoPlan

NextPolicy == PlanDownload

SpecPolicy == InitPolicy /\ [][NextPolicy]_vars

---------------------------------------------------------------------------
(* Helpers of the properties.                                              *)

\* The bytes of the chunks of a body, in order.
RECURSIVE Concat(_)
Concat(body) ==
    IF body = << >> THEN << >>
    ELSE (IF Head(body).t = "chunk" THEN Head(body).data ELSE << >>)
         \o Concat(Tail(body))

\* The callback invocations of call c, in order.
LogOf(c) == SelectSeq(sinkLog, LAMBDA e : e.call = c)

\* The chunks among the items of a stream, in order.
ChunksOf(items) == SelectSeq(items, LAMBDA it : it.t = "chunk")

RECURSIVE SumArgs(_)
SumArgs(log) == IF log = << >> THEN 0 ELSE Head(log).arg + SumArgs(Tail(log))

\* The text of u after its first five characters.
Remainder(u) == [i \in 1..(Len(u) - 5) |-> u[i + 5]]

\* The places of '/' in a text.
Slashes(r) == {i \in 1..Len(r) : r[i] = "/"}

---------------------------------------------------------------------------
(* The properties.                                                         *)

\* C1: whenever S3Uri::parse returns Ok, the bucket and the key of the
\* value it returns are both non-empty.
C1_PartsNonEmpty ==
    \A c \in calls :
        uri[c].ok => uri[c].bucket # << >> /\ uri[c].key # << >>

\* C2: the result of S3Uri::parse on every string is fixed by these rules,
\* in this order: a string that starts with neither s3:// nor S3:// fails
\* with the bad-scheme message; one with no '/' after the prefix fails as
\* incomplete; one with nothing after the first '/' of the remainder fails
\* with the missing-key message; any other succeeds with the text before
\* that '/' as bucket and all the text after it as key.
C2_ParseRules ==
    \A c \in calls :
        pc[c] = "Parsed" =>
            LET u == s3uri[c]
                r == uri[c]
                prefixed == /\ Len(u) >= 5
                            /\ u[1] \in {"s", "S"}
                            /\ u[2] = "3" /\ u[3] = ":"
                            /\ u[4] = "/" /\ u[5] = "/"
            IN  IF ~prefixed
                THEN ~r.ok /\ r.message = "S3 Uri must start with s3:// or S3://"
                ELSE IF Slashes(Remainder(u)) = {}
                THEN ~r.ok /\ r.message = "Incomplete S3 Uri"
                ELSE LET rem == Remainder(u)
                         f == CHOOSE i \in Slashes(rem) :
                                 \A j \in Slashes(rem) : i <= j
                     IN  IF f = Len(rem)
                         THEN ~r.ok /\ r.message = "Missing key from S3 Uri"
                         ELSE /\ r.ok
                              /\ Len(r.bucket) = f - 1
                              /\ \A i \in 1..(f - 1) : r.bucket[i] = rem[i]
                              /\ Len(r.key) = Len(rem) - f
                              /\ \A i \in 1..(Len(rem) - f) :
                                     r.key[i] = rem[f + i]

\* A string was parsed into a bucket and a key that holds a '/'.
C2_Witness ==
    \E c \in calls :
        /\ pc[c] = "Parsed"
        /\ uri[c].ok
        /\ uri[c].bucket # << >>
        /\ \E i \in 1..Len(uri[c].key) : uri[c].key[i] = "/"

\* C3: with a callback configured, the arguments on_progress has been
\* called with are the lengths of the chunks the inner stream has yielded,
\* one call for each chunk and in the order of the chunks; so their sum is
\* the sum of the chunk lengths.
C3_ProgressIsChunkLengths ==
    \A c \in calls :
        LET log == LogOf(c)
            chunks == ChunksOf(emitted[c])
        IN  IF hasSink
            THEN /\ Len(log) = Len(chunks)
                 /\ \A i \in 1..Len(log) :
                        /\ log[i].cb = "on_progress"
                        /\ log[i].arg = Len(chunks[i].data)
                 /\ SumArgs(log) = TotalLen(emitted[c])
            ELSE log = << >>

\* The callback was called for two chunks of different lengths, the first
\* of them not empty, with an error or an end of stream between them or
\* after them.
C3_Witness ==
    \E c \in calls :
        /\ hasSink
        /\ Len(LogOf(c)) >= 2
        /\ LogOf(c)[1].arg > 0
        /\ LogOf(c)[1].arg # LogOf(c)[2].arg
        /\ terminated[c]

\* C4: once the stream has returned end of stream or an error to its
\* consumer, no later poll of it calls the callback.
C4_SilentAfterTermination ==
    [][\A c \in calls : terminated[c] => sinkLog' = sinkLog]_vars

\* C5: a download that got Ok from the backend and drained the body to
\* its end has called set_total once, before every on_progress, and
\* on_finished once, after every on_progress and with every chunk of the
\* body already in the buffer.
C5_CallbackOrder ==
    \A c \in calls :
        (kind[c] = "download" /\ pc[c] = "Completed") =>
            LET log == LogOf(c)
                n == Len(log)
            IN  IF hasSink
                THEN /\ n >= 2
                     /\ log[1].cb = "set_total"
                     /\ \A i \in 2..(n - 1) : log[i].cb = "on_progress"
                     /\ n - 2 = Len(ChunksOf(emitted[c]))
                     /\ log[n].cb = "on_finished"
                     /\ log[n].dest = buf0[c] \o Concat(emitted[c])
                     /\ inner[c] = << >>
                ELSE log = << >>

\* A download with callbacks has completed after two chunks or more.
C5_Witness ==
    \E c \in calls :
        /\ kind[c] = "download"
        /\ pc[c] = "Completed"
        /\ hasSink
        /\ Len(ChunksOf(emitted[c])) >= 2
        /\ TotalLen(emitted[c]) >= 2

\* C6 as stated: when a download returns Ok, the length of the buffer
\* is the sum of the lengths of the chunks of the body.
C6_LengthIsBodyLength ==
    \A c \in calls :
        (kind[c] = "download" /\ result[c].status = "ok") =>
            Len(buf[c]) = TotalLen(emitted[c])

\* C6, amended: when a download returns Ok, the whole body has been read
\* and the length of the buffer is the length it had when the call was
\* made plus the sum of the lengths of the chunks of the body.
C6_LengthGrowsByBodyLength ==
    \A c \in calls :
        (kind[c] = "download" /\ result[c].status = "ok") =>
            /\ inner[c] = << >>
            /\ chunk[c] = << >>
            /\ Len(buf[c]) = Len(buf0[c]) + TotalLen(emitted[c])

\* A download into a buffer that was not empty has returned Ok after a
\* body that was not empty.
C6_Witness ==
    \E c \in calls :
        /\ kind[c] = "download"
        /\ result[c].status = "ok"
        /\ buf0[c] # << >>
        /\ TotalLen(emitted[c]) > 0

\* C7: a download or download_file that ended in a failure has not
\* called on_finished.
C7_NoFinishOnFailure ==
    \A c \in calls :
        result[c].status \in {"err", "panic"} =>
            \A i \in 1..Len(sinkLog) :
                ~(sinkLog[i].call = c /\ sinkLog[i].cb = "on_finished")

\* A call with callbacks has failed on an error of the body stream after
\* on_progress was called.
C7_Witness ==
    \E c \in calls :
        /\ hasSink
        /\ result[c].status = "err"
        /\ result[c].payload.src = "ByteStream"
        /\ \E i \in 1..Len(sinkLog) : sinkLog[i].cb = "on_progress"

\* C8: a download or download_file whose address the parser rejects
\* returns an InvalidAddress error; it does not panic.
C8_InvalidAddressIsReturned ==
    \A c \in calls :
        (kind[c] \in {"download", "download_file"}
            /\ pc[c] # "Idle" /\ ~uri[c].ok) =>
            /\ result[c].status = "err"
            /\ result[c].kind = "InvalidAddress"

\* C9: a download whose body yields an error after k chunks returns that
\* error, has pulled nothing from the body after the error, and leaves in
\* the buffer what it held before the call followed by the bytes of the
\* k chunks in order.
C9_ErrorKeepsPartialBuffer ==
    \A c \in calls :
        (kind[c] = "download" /\ \E i \in 1..Len(emitted[c]) :
                                     emitted[c][i].t = "err") =>
            LET n == Len(emitted[c])
            IN  /\ emitted[c][n].t = "err"
                /\ \A i \in 1..(n - 1) : emitted[c][i].t = "chunk"
                /\ pc[c] = "Failed"
                /\ result[c].status = "err"
                /\ result[c].payload.src = "ByteStream"
                /\ result[c].payload.code = emitted[c][n].data[1]
                /\ buf[c] = buf0[c] \o Concat(emitted[c])

\* A download has failed on an error of the body that came after a chunk
\* that was not empty.
C9_Witness ==
    \E c \in calls :
        /\ kind[c] = "download"
        /\ pc[c] = "Failed"
        /\ result[c].payload.src = "ByteStream"
        /\ buf0[c] # << >>
        /\ TotalLen(emitted[c]) > 0

\* C10: a failed get_object is returned as NotFound when it is the
\* service error NoSuchKey and as Other when it is any other service
\* error or any other SdkError, with the error as the payload.
C10_GetErrorKinds ==
    \A c \in calls :
        resp[c].variant \notin {"None", "Ok"} =>
            /\ result[c].status = "err"
            /\ result[c].kind \in {"NotFound", "Other"}
            /\ result[c].kind = "NotFound" <=>
                  (resp[c].variant = "ServiceError" /\ resp[c].err = "NoSuchKey")
            /\ IF resp[c].variant = "ServiceError"
               THEN /\ result[c].payload.src = "GetObjectError"
                    /\ result[c].payload.what = resp[c].err
               ELSE /\ result[c].payload.src = "SdkError"
                    /\ result[c].payload.what = resp[c].variant

\* A get_object has failed with InvalidObjectState.
C10_Witness ==
    \E c \in calls :
        /\ resp[c].variant = "ServiceError"
        /\ resp[c].err = "InvalidObjectState"
        /\ pc[c] = "Failed"

\* C13: get_download_chunk_size returns Some exactly when max_concurrency
\* is more than 1 and the object size is more than br_threshold, and then
\* the size it returns is br_threshold / max_concurrency, rounded down.
C13_PlanDownload ==
    \A c \in calls :
        pc[c] = "Planned" =>
            LET mc == config.max_concurrency
                thr == config.br_threshold
            IN  /\ plan.some <=> (mc > 1 /\ objsz > thr)
                /\ plan.some => /\ plan.size \in 0..thr
                                /\ plan.size * mc <= thr
                                /\ thr < (plan.size + 1) * mc
                /\ ~plan.some => plan = NoneSize

\* A plan was made for an object over the threshold that splits it, with
\* a threshold that max_concurrency does not divide.
C13_Witness ==
    \E c \in calls :
        /\ pc[c] = "Planned"
        /\ plan.some
        /\ plan.size >= 1
        /\ plan.size * config.max_concurrency < config.br_threshold
        /\ objsz > plan.size * config.max_concurrency + config.max_concurrency

\* C19: whenever get_download_chunk_size returns Some, the range size it
\* returns is 1 byte or more.
C19_RangeAtLeastOne ==
    \A c \in calls :
        (pc[c] = "Planned" /\ plan.some) => plan.size >= 1

\* C11: when a download_file returns Ok, and when it calls on_finished,
\* the file at the destination path holds the bytes of all the chunks of
\* the body in order and nothing else, and the BufWriter holds nothing.
C11_FileIsBody ==
    \A c \in calls :
        (kind[c] = "download_file" /\ result[c].status = "ok") =>
            /\ inner[c] = << >>
            /\ chunk[c] = << >>
            /\ wbuf[c] = << >>
            /\ file[c].exists
            /\ file[c].data = Concat(emitted[c])
            /\ hasSink =>
                  LET log == LogOf(c)
                  IN  /\ log # << >>
                      /\ log[Len(log)].cb = "on_finished"
                      /\ log[Len(log)].dest = Concat(emitted[c])

\* A download_file to a path that held a file has returned Ok after a
\* body of two chunks or more and of more bytes than the BufWriter holds.
C11_Witness ==
    \E c \in calls :
        /\ kind[c] = "download_file"
        /\ result[c].status = "ok"
        /\ file0[c].exists
        /\ hasSink
        /\ Len(ChunksOf(emitted[c])) >= 2
        /\ TotalLen(emitted[c]) > WriterCap

\* C12: a download or download_file sends one get_object request at
\* most, for the whole object, whatever the config of the manager and
\* however the request and the drain end; once the address is parsed it
\* has sent exactly one.
C12_OneWholeGet ==
    \A c \in calls :
        /\ Len(gets[c]) <= 1
        /\ \A i \in 1..Len(gets[c]) :
              /\ gets[c][i].range = "none"
              /\ gets[c][i].bucket = uri[c].bucket
              /\ gets[c][i].key = uri[c].key
        /\ pc[c] \in {"Requested", "Receiving", "Draining", "Completed",
                      "Failed"} => Len(gets[c]) = 1

\* A call on a manager whose config splits the object has failed in the
\* drain, after the one request it sent.
C12_Witness ==
    \E c \in calls :
        /\ config.some
        /\ get_download_chunk_size(config, TotalLen(emitted[c])).some
        /\ pc[c] = "Failed"
        /\ result[c].payload.src = "ByteStream"
        /\ Len(gets[c]) = 1

\* C20: as long as a download_file has not got Ok from the backend (the
\* address was rejected, the request is not answered, or it failed), the
\* destination path is as it was when the call was made.
C20_FileUntouchedBeforeOk ==
    \A c \in calls :
        (kind[c] = "download_file" /\ resp[c].variant # "Ok") =>
            file[c] = file0[c]

\* A download_file to a path that held a file has failed with NoSuchKey.
C20_Witness ==
    \E c \in calls :
        /\ kind[c] = "download_file"
        /\ file0[c].exists
        /\ file0[c].data # << >>
        /\ resp[c].err = "NoSuchKey"
        /\ pc[c] = "Failed"

C16_ErrorAndEndPassThrough ==
    [][\A c \in calls :
          lastPoll'[c].got.t \in {"err", "end", "pending"} =>
              /\ lastPoll'[c].ret = lastPoll'[c].got
              /\ sinkLog' = sinkLog]_vars

\* With a callback configured and a chunk already reported, a poll found
\* an error in the inner stream.
C16_Witness ==
    \E c \in calls :
        /\ hasSink
        /\ kind[c] = "consumer"
        /\ Len(LogOf(c)) >= 1
        /\ lastPoll[c].got.t = "err"
        /\ lastPoll[c].ret = lastPoll[c].got

\* The bytes of the body that call c has handed to its destination: what
\* it appended to the buffer, or what the BufWriter took.
HandedOf(c) ==
    IF kind[c] = "download"
    THEN SubSeq(buf[c], Len(buf0[c]) + 1, Len(buf[c]))
    ELSE file[c].data \o wbuf[c]

\* C17: while download or download_file drains the body, the bytes handed
\* to the destination followed by the unread bytes of the reader are the
\* bytes of the chunks pulled so far, the unread bytes are the end of the
\* chunk pulled last, and the stream is polled for a further item, and
\* on_progress called, only when the reader holds no unread byte.
C17_PullAfterConsumed ==
    [][\A c \in calls :
          (kind[c] \in {"download", "download_file"} /\ pc[c] = "Draining") =>
              /\ HandedOf(c) \o chunk[c] = Concat(emitted[c])
              /\ chunk[c] # << >> =>
                    LET last == emitted[c][Len(emitted[c])]
                    IN  /\ last.t = "chunk"
                        /\ Len(chunk[c]) <= Len(last.data)
                        /\ chunk[c] = SubSeq(last.data,
                                         Len(last.data) - Len(chunk[c]) + 1,
                                         Len(last.data))
              /\ (emitted'[c] # emitted[c] \/ lastPoll'[c] # lastPoll[c]
                      \/ SelectSeq(sinkLog', LAMBDA e : e.call = c) # LogOf(c)) =>
                    chunk[c] = << >>]_vars

\* download_file is draining its second chunk or a later one and has
\* handed a part of it to the BufWriter, with earlier bytes in the file.
C17_Witness ==
    \E c \in calls :
        /\ kind[c] = "download_file"
        /\ pc[c] = "Draining"
        /\ Len(ChunksOf(emitted[c])) >= 2
        /\ chunk[c] # << >>
        /\ Len(chunk[c]) < Len(emitted[c][Len(emitted[c])].data)
        /\ file[c].data # << >>

\* C18: a call changes state only from Idle to Requested, from Requested
\* to Receiving, from Receiving to Draining and from Draining to
\* Completed, or to Failed from Requested or later (a call that unwinds on
\* a rejected address leaves Idle without a request); Completed is entered
\* only with the end of the body observed; Completed and Failed are never
\* left; and a call whose request was sent reaches Completed or Failed.
C18_StatesInOrderAndTerminates ==
    /\ [][\A c \in calls :
             /\ pc'[c] # pc[c] =>
                   \/ pc[c] = "Idle" /\ pc'[c] \in {"Requested", "Panicked"}
                   \/ pc[c] = "Requested" /\ pc'[c] \in {"Receiving", "Failed"}
                   \/ pc[c] = "Receiving" /\ pc'[c] \in {"Draining", "Failed"}
                   \/ pc[c] = "Draining" /\ pc'[c] \in {"Completed", "Failed"}
             /\ pc'[c] = "Completed" =>
                   /\ lastPoll'[c].got = EndItem
                   /\ terminated'[c]
                   /\ inner'[c] = << >>]_vars
    /\ \A c \in AllCalls :
          (c \in calls /\ pc[c] = "Requested") ~>
              [](pc[c] \in {"Completed", "Failed"})

\* A download went through every state to Completed over a body of two
\* chunks or more.
C18_Witness ==
    \E c \in calls :
        /\ kind[c] = "download"
        /\ pc[c] = "Completed"
        /\ Len(ChunksOf(emitted[c])) >= 2
        /\ lastPoll[c].got = EndItem

\* s is the start of t.
IsPrefix(s, t) == Len(s) <= Len(t) /\ s = SubSeq(t, 1, Len(s))

\* What draining the items of a body into the destination d gives: the
\* chunks up to the first error or to the end, and the error or Ok.
RECURSIVE SoloDrain(_, _)
SoloDrain(d, items) ==
    IF items = << >> THEN [result |-> OkResult, dest |-> d]
    ELSE CASE Head(items).t = "chunk" ->
                 SoloDrain(d \o Head(items).data, Tail(items))
           [] Head(items).t = "err" ->
                 [result |-> StreamError(Head(items)), dest |-> d]
           [] OTHER -> [result |-> OkResult, dest |-> d]

\* What call c gives when it runs alone to its end with the address, the
\* destination, the answer of the backend and the body that it has.
Solo(c) ==
    LET d0 == IF kind[c] = "download" THEN buf0[c] ELSE << >>
    IN  IF ~parse(s3uri[c]).ok THEN [result |-> Panicked, dest |-> d0]
        ELSE IF resp[c] = OkResp
             THEN SoloDrain(d0, emitted[c] \o inner[c])
             ELSE [result |-> error_handler_get_object(resp[c]), dest |-> d0]

\* C14: with two calls running on one manager in any interleaving, every
\* byte in the destination of a call is a byte that the call puts there
\* when it runs alone, in the same place; a call that returned without a
\* failure of its file has the result that it has when it runs alone,
\* and, when it is a download or has completed, the destination too (a
\* download_file that failed leaves in the file as much as the BufWriter
\* had written); and no step of a call changes the callbacks or the
\* config of the manager.
C14_CallsAreIndependent ==
    /\ [](\A c \in calls :
             /\ pc[c] \notin {"Idle", "Requested"} =>
                   IsPrefix(DestOf(c), Solo(c).dest)
             /\ (pc[c] \in {"Completed", "Failed", "Panicked"}
                    /\ result[c].kind # "LocalIO") =>
                   /\ result[c] = Solo(c).result
                   /\ (kind[c] = "download" \/ pc[c] = "Completed") =>
                         DestOf(c) = Solo(c).dest)
    /\ [][hasSink' = hasSink /\ config' = config /\ calls' = calls]_vars

\* Both calls completed, each with bytes of its own body in its
\* destination, after the second call was answered while the first was
\* draining and the callbacks of the two calls alternated.
C14_Witness ==
    /\ hasSink
    /\ \A c \in AllCalls :
          /\ c \in calls
          /\ pc[c] = "Completed"
          /\ Len(Concat(emitted[c])) >= 2
    /\ \E i, j, k \in 1..Len(sinkLog) :
          /\ i < j /\ j < k
          /\ sinkLog[i].call = sinkLog[k].call
          /\ sinkLog[j].call # sinkLog[i].call
          /\ sinkLog[i].cb = "on_progress"
          /\ sinkLog[j].cb = "on_progress"
          /\ sinkLog[k].cb = "on_progress"

===========================================================================
